---- MODULE Spec2Model ----
(***************************************************************************)
(* Fin Easy: the ledger engine (src/ledger_engine.py) and the account      *)
(* monitor (src/account_monitor.py) over the tables of src/database.py.    *)
(*                                                                         *)
(* Money is counted in thousandths of the currency unit (0.001), so that   *)
(* a proposed amount may be finer than the two decimals the Numeric(15, 2) *)
(* columns keep: 4 is 0.004, 8 is 0.008 and Cent = 10 is 0.01.             *)
(***************************************************************************)
EXTENDS Integers, Sequences, FiniteSets, TLC

VARIABLES
    accounts,           \* table accounts: account_code -> [account_type, balance]
    journal_entries,    \* table journal_entries, in insertion (id) order
    transaction_lines,  \* table transaction_lines, in insertion (id) order
    pending,            \* the call of create_journal_entry a caller has made
    result,             \* what the finished call returned or raised
    sess,               \* concurrent workers: each one's call and its session
    probe,              \* one account class and one line, for the sign rules
    account_checks,     \* table account_checks, in insertion (id) order
    raw_transactions    \* table raw_transactions, in insertion (id) order

vars == <<accounts, journal_entries, transaction_lines, pending, result,
          sess, probe, account_checks, raw_transactions>>
db == <<accounts, journal_entries, transaction_lines>>

(***************************************************************************)
(* Bounds of the model.                                                    *)
(***************************************************************************)
MaxEntries == 2     \* committed journal entries
MaxLines == 2       \* lines of one proposed posting

(***************************************************************************)
(* The chart of accounts (Database.initialize_default_accounts) and the    *)
(* inputs of create_journal_entry.                                         *)
(***************************************************************************)
\* Numeric(15, 2): one unit of the second decimal, in thousandths.
Cent == 10

\* Two of the default accounts: Cash (Asset) and Sales Revenue (Revenue).
DefaultAccounts ==
    [c \in {"1000", "4000"} |->
        [account_type |-> IF c = "1000" THEN "Asset" ELSE "Revenue",
         balance |-> 0]]

\* An account code no row of the accounts table has.
AbsentCode == "9999"

\* entry_date values, as strftime('%Y%m%d') prints them.
Dates == {20240105, 20240106}

\* (debit, credit) of a proposed line: a debit, a credit, and a line that
\* carries both.
AmountPairs == {<<4, 0>>, <<0, 4>>, <<4, 8>>}

ProposedLine ==
    {[account_code |-> c, debit |-> p[1], credit |-> p[2]] :
        c \in DOMAIN DefaultAccounts, p \in AmountPairs}
    \cup {[account_code |-> AbsentCode, debit |-> 0, credit |-> 4]}

Transactions == UNION {[1..n -> ProposedLine] : n \in 0..MaxLines}

NoCall == [op |-> "none"]
NoResult == [status |-> "none"]

\* The workers that call create_journal_entry concurrently, one call each.
Workers == {"w1", "w2"}
Idle == [pc |-> "idle"]

\* The lines the concurrent workers propose, in whole cents.
WorkerLine ==
    {[account_code |-> "1000", debit |-> 10, credit |-> 0],
     [account_code |-> "4000", debit |-> 0, credit |-> 10],
     [account_code |-> AbsentCode, debit |-> 0, credit |-> 10]}

WorkerTransactions == UNION {[1..n -> WorkerLine] : n \in 0..MaxLines}

\* The values the account_type column (String(50)) can hold: the five
\* classes, and "Other" for any other string.
AccountTypeValues ==
    {"Asset", "Liability", "Equity", "Revenue", "Expense", "Other"}

ProbeAmounts == {0, 4, 10, 500000}
NoProbe == [done |-> FALSE, account_type |-> "none"]

(***************************************************************************)
(* Storage: a Numeric(15, 2) column keeps two decimals.                    *)
(***************************************************************************)
Abs(x) == IF x < 0 THEN -x ELSE x

\* The value a Numeric(15, 2) column hands back for x: the nearest multiple
\* of 0.01.
Numeric2(x) ==
    LET q == ((Abs(x) + Cent \div 2) \div Cent) * Cent
    IN  IF x < 0 THEN -q ELSE q

(***************************************************************************)
(* LedgerEngine                                                            *)
(***************************************************************************)
RECURSIVE total_debits(_)
total_debits(ts) ==
    IF ts = <<>> THEN 0 ELSE Head(ts).debit + total_debits(Tail(ts))

RECURSIVE total_credits(_)
total_credits(ts) ==
    IF ts = <<>> THEN 0 ELSE Head(ts).credit + total_credits(Tail(ts))

\* Mutant: the totals compared with the monitor's tolerance.
double_entry_valid_within_tolerance(ts) ==
    (IF total_debits(ts) < total_credits(ts)
        THEN total_credits(ts) - total_debits(ts)
        ELSE total_debits(ts) - total_credits(ts)) < 10

\* The double-entry validation of create_journal_entry: exact comparison.
double_entry_valid(ts) == total_debits(ts) = total_credits(ts)

\* f"{n:03d}": the decimal digits of n, zero-padded to at least 3.
RECURSIVE Digits(_)
Digits(n) == IF n < 10 THEN <<n>> ELSE Append(Digits(n \div 10), n % 10)

Pad03d(n) ==
    LET ds == Digits(n)
    IN  IF Len(ds) >= 3 THEN ds
        ELSE [i \in 1..(3 - Len(ds)) |-> 0] \o ds

\* f"JE-{date_str}-{n:03d}"
FormatEntryNumber(d, n) == <<"JE", d, Pad03d(n)>>

\* Mutant: the count taken over the entries of every date.
generate_entry_number_all_dates(entries, d) ==
    FormatEntryNumber(d, Len(entries) + 1)

\* _generate_entry_number: count of the entries of that date, plus one.
generate_entry_number(entries, d) ==
    LET count == Cardinality({i \in DOMAIN entries : entries[i].entry_date = d})
    IN  FormatEntryNumber(d, count + 1)

\* _update_account_balance: the change one line makes to its account.
balance_change(account_type, debit_amount, credit_amount) ==
    IF account_type \in {"Asset", "Expense"}
        THEN debit_amount - credit_amount
    ELSE IF account_type \in {"Liability", "Equity", "Revenue"}
        THEN credit_amount - debit_amount
    ELSE 0

\* The tables as one value: what a session reads, and what it writes.
Tables ==
    [accounts |-> accounts,
     journal_entries |-> journal_entries,
     transaction_lines |-> transaction_lines]

\* Mutant: the new entry row takes the place of the newest one.
add_journal_entry_overwrites(s, d, entry_number) ==
    IF s.journal_entries = <<>>
        THEN [s EXCEPT !.journal_entries =
                <<[entry_date |-> d, entry_number |-> entry_number]>>]
        ELSE [s EXCEPT !.journal_entries[Len(s.journal_entries)] =
                [entry_date |-> d, entry_number |-> entry_number]]

\* session.add(journal_entry); session.flush(): the entry row gets its id.
add_journal_entry(s, d, entry_number) ==
    [s EXCEPT !.journal_entries =
        Append(@, [entry_date |-> d, entry_number |-> entry_number])]

\* Mutant: the change of a line is added to the balance of every account.
add_transaction_line_all_accounts(s, t, entry_id) ==
    [s EXCEPT
        !.transaction_lines =
            Append(@, [journal_entry_id |-> entry_id,
                       account_code |-> t.account_code,
                       debit_amount |-> t.debit,
                       credit_amount |-> t.credit]),
        !.accounts =
            [c \in DOMAIN s.accounts |->
                [s.accounts[c] EXCEPT !.balance =
                    @ + balance_change(s.accounts[t.account_code].account_type,
                                       t.debit, t.credit)]]]

\* One pass of the loop over the proposed lines: the TransactionLine is
\* added and _update_account_balance adds the change to account.balance.
add_transaction_line(s, t, entry_id) ==
    [s EXCEPT
        !.transaction_lines =
            Append(@, [journal_entry_id |-> entry_id,
                       account_code |-> t.account_code,
                       debit_amount |-> t.debit,
                       credit_amount |-> t.credit]),
        !.accounts[t.account_code].balance =
            @ + balance_change(s.accounts[t.account_code].account_type,
                               t.debit, t.credit)]

\* The loop over the proposed lines, in the session `s`: it stops at the
\* first line whose account is not found.
RECURSIVE post_lines(_, _, _)
post_lines(ts, s, entry_id) ==
    IF ts = <<>> THEN [found |-> TRUE, session |-> s]
    ELSE IF Head(ts).account_code \notin DOMAIN s.accounts
        THEN [found |-> FALSE, session |-> s]
    ELSE post_lines(Tail(ts), add_transaction_line(s, Head(ts), entry_id),
                    entry_id)

\* Mutant: the commit also writes the class of every account.
commit_writes_account_type(s) ==
    [accounts |->
        [c \in DOMAIN s.accounts |->
            [account_type |-> "Asset",
             balance |-> Numeric2(s.accounts[c].balance)]],
     journal_entries |-> s.journal_entries,
     transaction_lines |->
        [i \in DOMAIN s.transaction_lines |->
            [s.transaction_lines[i] EXCEPT
                !.debit_amount = Numeric2(@),
                !.credit_amount = Numeric2(@)]]]

\* session.commit(): the session's rows become the tables' rows, each
\* Numeric(15, 2) column keeping two decimals.
commit(s) ==
    [accounts |->
        [c \in DOMAIN s.accounts |->
            [s.accounts[c] EXCEPT !.balance = Numeric2(@)]],
     journal_entries |-> s.journal_entries,
     transaction_lines |->
        [i \in DOMAIN s.transaction_lines |->
            [s.transaction_lines[i] EXCEPT
                !.debit_amount = Numeric2(@),
                !.credit_amount = Numeric2(@)]]]

\* Mutant: no rollback, what the session had flushed stays.
rollback_missing(tables, s) == s

\* session.rollback(): the tables stay as they were before the session `s`.
rollback(tables, s) == tables

\* Where the storage can fail during a posting: not at all, before the loop
\* over the lines (the count query or the flush), or at the commit.
Faults == {"none", "flush", "commit"}

\* create_journal_entry on the tables `tables`: the result for the caller
\* and the tables it leaves.
post(tables, d, ts, fault) ==
    LET entry_number == generate_entry_number(tables.journal_entries, d)
        entry_id == Len(tables.journal_entries) + 1
        s1 == add_journal_entry(tables, d, entry_number)
        looped == post_lines(ts, s1, entry_id)
    IN  IF ~double_entry_valid(ts) THEN
            [result |-> [status |-> "unbalanced",
                         debits |-> total_debits(ts),
                         credits |-> total_credits(ts)],
             tables |-> tables]
        ELSE IF fault = "flush" THEN
            [result |-> [status |-> "storage_error"],
             tables |-> rollback(tables, tables)]
        ELSE IF \E i \in DOMAIN tables.journal_entries :
                    tables.journal_entries[i].entry_number = entry_number THEN
            \* the unique constraint of journal_entries.entry_number
            [result |-> [status |-> "integrity_error"],
             tables |-> rollback(tables, s1)]
        ELSE IF ~looped.found THEN
            [result |-> [status |-> "account_not_found"],
             tables |-> rollback(tables, looped.session)]
        ELSE IF fault = "commit" THEN
            [result |-> [status |-> "storage_error"],
             tables |-> rollback(tables, looped.session)]
        ELSE
            [result |-> [status |-> "ok", entry_number |-> entry_number],
             tables |-> commit(looped.session)]

\* A caller calls create_journal_entry(entry_date, description, transactions).
Call ==
    /\ pending = NoCall
    /\ result = NoResult
    /\ Len(journal_entries) < MaxEntries
    /\ \E d \in Dates, ts \in Transactions :
        pending' = [op |-> "create_journal_entry", entry_date |-> d,
                    transactions |-> ts]
    /\ UNCHANGED <<db, result, sess, probe, account_checks,
                 raw_transactions>>

\* create_journal_entry, from the validation to commit or rollback.
create_journal_entry ==
    /\ pending # NoCall
    /\ pending' = NoCall
    /\ \E fault \in Faults :
        LET out == post(Tables, pending.entry_date, pending.transactions, fault)
        IN  /\ result' = out.result
            /\ accounts' = out.tables.accounts
            /\ journal_entries' = out.tables.journal_entries
            /\ transaction_lines' = out.tables.transaction_lines
    /\ UNCHANGED <<sess, probe, account_checks,
                 raw_transactions>>

(***************************************************************************)
(* AccountMonitor                                                          *)
(***************************************************************************)
\* abs(account.balance - calculated_balance) < Decimal('0.01')
Tolerance == 10

\* The term _calculate_balance_from_transactions adds for one line.
audit_term(account_type, debit_amount, credit_amount) ==
    IF account_type \in {"Asset", "Expense"}
        THEN debit_amount - credit_amount
    ELSE credit_amount - debit_amount

\* _calculate_balance_from_transactions: the fold over the lines of the
\* account in the table `lines`.
RECURSIVE calculate_balance_from_transactions(_, _, _)
calculate_balance_from_transactions(lines, code, account_type) ==
    IF lines = <<>> THEN 0
    ELSE (IF Head(lines).account_code = code
            THEN audit_term(account_type, Head(lines).debit_amount,
                            Head(lines).credit_amount)
            ELSE 0)
         + calculate_balance_from_transactions(Tail(lines), code, account_type)

\* Mutant: a difference of exactly 0.01 passes.
check_account_balance_inclusive(code) ==
    IF code \notin DOMAIN accounts
        THEN [status |-> "error", check_type |-> "none"]
    ELSE LET stored == accounts[code].balance
             calculated == calculate_balance_from_transactions(
                              transaction_lines, code,
                              accounts[code].account_type)
         IN  [account_code |-> code,
              stored_balance |-> stored,
              calculated_balance |-> calculated,
              difference |-> stored - calculated,
              status |-> IF Abs(stored - calculated) <= Tolerance
                            THEN "pass" ELSE "fail",
              check_type |-> "balance"]

\* check_account_balance(account_code): the result it returns.
check_account_balance(code) ==
    IF code \notin DOMAIN accounts
        THEN [status |-> "error", check_type |-> "none"]
    ELSE LET stored == accounts[code].balance
             calculated == calculate_balance_from_transactions(
                              transaction_lines, code,
                              accounts[code].account_type)
         IN  [account_code |-> code,
              stored_balance |-> stored,
              calculated_balance |-> calculated,
              difference |-> stored - calculated,
              status |-> IF Abs(stored - calculated) < Tolerance
                            THEN "pass" ELSE "fail",
              check_type |-> "balance"]

\* sum(t.debit_amount ...) and sum(t.credit_amount ...) over the lines of
\* one journal entry.
RECURSIVE entry_debits(_, _)
entry_debits(lines, entry_id) ==
    IF lines = <<>> THEN 0
    ELSE (IF Head(lines).journal_entry_id = entry_id
            THEN Head(lines).debit_amount ELSE 0)
         + entry_debits(Tail(lines), entry_id)

RECURSIVE entry_credits(_, _)
entry_credits(lines, entry_id) ==
    IF lines = <<>> THEN 0
    ELSE (IF Head(lines).journal_entry_id = entry_id
            THEN Head(lines).credit_amount ELSE 0)
         + entry_credits(Tail(lines), entry_id)

\* Mutant: an entry is listed only when its sums differ by more than 0.01.
RECURSIVE unbalanced_entries_beyond_tolerance(_)
unbalanced_entries_beyond_tolerance(i) ==
    IF i > Len(journal_entries) THEN <<>>
    ELSE LET debits == entry_debits(transaction_lines, i)
             credits == entry_credits(transaction_lines, i)
         IN  (IF Abs(debits - credits) > Tolerance
                THEN <<[entry_number |-> journal_entries[i].entry_number,
                        debits |-> debits, credits |-> credits,
                        difference |-> debits - credits]>>
                ELSE <<>>)
             \o unbalanced_entries_beyond_tolerance(i + 1)

\* The loop of check_double_entry_balance over the entries from id `i` on.
RECURSIVE unbalanced_entries(_)
unbalanced_entries(i) ==
    IF i > Len(journal_entries) THEN <<>>
    ELSE LET debits == entry_debits(transaction_lines, i)
             credits == entry_credits(transaction_lines, i)
         IN  (IF debits # credits
                THEN <<[entry_number |-> journal_entries[i].entry_number,
                        debits |-> debits, credits |-> credits,
                        difference |-> debits - credits]>>
                ELSE <<>>)
             \o unbalanced_entries(i + 1)

\* Mutant: a journal without entries does not pass.
check_double_entry_balance_needs_entries ==
    LET unbalanced == unbalanced_entries(1)
    IN  [status |-> IF unbalanced = <<>> /\ journal_entries # <<>>
                        THEN "pass" ELSE "fail",
         total_entries |-> Len(journal_entries),
         unbalanced_entries |-> unbalanced,
         check_type |-> "double_entry"]

\* check_double_entry_balance(): the result it returns.
check_double_entry_balance ==
    LET unbalanced == unbalanced_entries(1)
    IN  [status |-> IF unbalanced = <<>> THEN "pass" ELSE "fail",
         total_entries |-> Len(journal_entries),
         unbalanced_entries |-> unbalanced,
         check_type |-> "double_entry"]

\* The caller takes the journal entry returned or the exception raised.
Return ==
    /\ pending = NoCall
    /\ result # NoResult
    /\ result' = NoResult
    /\ UNCHANGED <<db, pending, sess, probe, account_checks,
                 raw_transactions>>

Init ==
    /\ accounts = DefaultAccounts
    /\ journal_entries = <<>>
    /\ transaction_lines = <<>>
    /\ pending = NoCall
    /\ result = NoResult
    /\ sess = [w \in Workers |-> Idle]
    /\ probe = NoProbe
    /\ account_checks = <<>>
    /\ raw_transactions = <<>>

Next == Call \/ create_journal_entry \/ Return

Spec == Init /\ [][Next]_vars

(***************************************************************************)
(* Concurrent callers of create_journal_entry. Each worker runs one call   *)
(* in its own session; a step is one access to the database. A session    *)
(* reads committed rows (and its own), and its writes reach the tables at   *)
(* its commit. The code takes no lock and issues no locking read.          *)
(***************************************************************************)
InFlight(w) == sess[w].pc \in {"flush", "lines"}
Done(w) == sess[w].pc = "done"

\* Mutant: a call that failed reports success to its caller.
finished_reports_ok(w, status) ==
    [sess[w] EXCEPT !.pc = "done", !.status = "ok"]

\* The call of worker `w` ends: it returns ("ok") or raises (`status`).
finished(w, status) == [sess[w] EXCEPT !.pc = "done", !.status = status]

\* l.25-36: the validation, then _generate_entry_number counts the committed
\* entries of the date in a session of its own.
Start(w) ==
    /\ sess[w] = Idle
    /\ \E d \in Dates, ts \in WorkerTransactions :
        sess' = [sess EXCEPT ![w] =
            [pc |-> IF double_entry_valid(ts) THEN "flush" ELSE "done",
             status |-> IF double_entry_valid(ts) THEN "running"
                        ELSE "unbalanced",
             entry_date |-> d,
             transactions |-> ts,
             entry_number |-> generate_entry_number(journal_entries, d),
             next |-> 1,
             loaded |-> <<>>,
             balance |-> <<>>]]
    /\ UNCHANGED <<db, pending, result, probe, account_checks,
                 raw_transactions>>

\* Mutant: journal_entries.entry_number carries no unique constraint.
Flush_without_unique_constraint(w) ==
    /\ sess[w].pc = "flush"
    /\ sess' = [sess EXCEPT ![w] = [sess[w] EXCEPT !.pc = "lines"]]
    /\ UNCHANGED <<db, pending, result, probe, account_checks,
                 raw_transactions>>

\* l.45-46: session.add(journal_entry); session.flush(). The INSERT waits
\* while another session holds the same entry_number uncommitted, and fails
\* on the unique constraint when a committed entry has it.
Flush(w) ==
    /\ sess[w].pc = "flush"
    /\ ~\E v \in Workers \ {w} :
            /\ sess[v].pc = "lines"
            /\ sess[v].entry_number = sess[w].entry_number
    /\ sess' = [sess EXCEPT ![w] =
            IF \E i \in DOMAIN journal_entries :
                    journal_entries[i].entry_number = sess[w].entry_number
                THEN finished(w, "integrity_error")
                ELSE [sess[w] EXCEPT !.pc = "lines"]]
    /\ UNCHANGED <<db, pending, result, probe, account_checks,
                 raw_transactions>>

\* l.49-66: one pass of the loop. The account row is read from the tables
\* the first time the session meets it; later passes use the session's
\* object. _update_account_balance adds the change to the object.
Line(w) ==
    /\ sess[w].pc = "lines"
    /\ sess[w].next <= Len(sess[w].transactions)
    /\ LET t == sess[w].transactions[sess[w].next]
           code == t.account_code
           known == code \in DOMAIN sess[w].balance
           read == IF known THEN sess[w].loaded[code]
                   ELSE accounts[code].balance
           current == IF known THEN sess[w].balance[code] ELSE read
       IN  sess' = [sess EXCEPT ![w] =
                IF code \notin DOMAIN accounts
                    THEN finished(w, "account_not_found")
                ELSE [sess[w] EXCEPT
                        !.next = @ + 1,
                        !.loaded = (code :> read) @@ @,
                        !.balance = (code :>
                            current + balance_change(
                                accounts[code].account_type,
                                t.debit, t.credit)) @@ @]]
    /\ UNCHANGED <<db, pending, result, probe, account_checks,
                 raw_transactions>>

\* l.68: session.commit(). The entry, its lines and an UPDATE of every
\* account whose balance the session changed reach the tables together.
Commit(w) ==
    /\ sess[w].pc = "lines"
    /\ sess[w].next > Len(sess[w].transactions)
    /\ LET entry_id == Len(journal_entries) + 1
           ts == sess[w].transactions
       IN  /\ journal_entries' = Append(journal_entries,
                    [entry_date |-> sess[w].entry_date,
                     entry_number |-> sess[w].entry_number])
           /\ transaction_lines' = transaction_lines \o
                    [i \in DOMAIN ts |->
                        [journal_entry_id |-> entry_id,
                         account_code |-> ts[i].account_code,
                         debit_amount |-> Numeric2(ts[i].debit),
                         credit_amount |-> Numeric2(ts[i].credit)]]
           /\ accounts' =
                [c \in DOMAIN accounts |->
                    IF c \in DOMAIN sess[w].balance
                            /\ sess[w].balance[c] # sess[w].loaded[c]
                        THEN [accounts[c] EXCEPT
                                !.balance = Numeric2(sess[w].balance[c])]
                        ELSE accounts[c]]
    /\ sess' = [sess EXCEPT ![w] = finished(w, "ok")]
    /\ UNCHANGED <<pending, result, probe, account_checks,
                 raw_transactions>>

\* l.72-75: the storage fails at some access; session.rollback().
Fail(w) ==
    /\ InFlight(w)
    /\ sess' = [sess EXCEPT ![w] = finished(w, "storage_error")]
    /\ UNCHANGED <<db, pending, result, probe, account_checks,
                 raw_transactions>>

NextConc ==
    \E w \in Workers :
        Start(w) \/ Flush(w) \/ Line(w) \/ Commit(w) \/ Fail(w)

SpecConc == Init /\ [][NextConc]_vars

(***************************************************************************)
(* The two sign rules, applied to one account class and one line.          *)
(***************************************************************************)
InitProbe ==
    /\ accounts = DefaultAccounts
    /\ journal_entries = <<>>
    /\ transaction_lines = <<>>
    /\ pending = NoCall
    /\ result = NoResult
    /\ sess = [w \in Workers |-> Idle]
    /\ probe \in [done : {FALSE}, account_type : AccountTypeValues,
                  debit_amount : ProbeAmounts, credit_amount : ProbeAmounts]
    /\ account_checks = <<>>
    /\ raw_transactions = <<>>

\* What _update_account_balance adds to account.balance for the line, and
\* what _calculate_balance_from_transactions adds to its sum for it.
ApplySignRules ==
    /\ ~probe.done
    /\ probe.account_type # "none"
    /\ probe' = [done |-> TRUE,
                 account_type |-> probe.account_type,
                 debit_amount |-> probe.debit_amount,
                 credit_amount |-> probe.credit_amount,
                 posted |-> balance_change(probe.account_type,
                                probe.debit_amount, probe.credit_amount),
                 audited |-> audit_term(probe.account_type,
                                probe.debit_amount, probe.credit_amount)]
    /\ UNCHANGED <<db, pending, result, sess, account_checks,
                 raw_transactions>>

SpecSign == InitProbe /\ [][ApplySignRules]_vars

(***************************************************************************)
(* Properties of the sequential ledger (Spec).                             *)
(***************************************************************************)
Posting == pending # NoCall

\* C1: with no posting in flight, check_account_balance passes for every
\* account: the balance recomputed from the account's lines is within 0.01
\* of the cached balance.
C1_BalanceMatchesHistory ==
    ~Posting =>
        \A c \in DOMAIN accounts : check_account_balance(c).status = "pass"

\* C2: every committed journal entry has equal sums of stored debit and
\* stored credit amounts: check_double_entry_balance passes with an empty
\* unbalanced_entries list.
C2_EntriesBalanced ==
    /\ check_double_entry_balance.status = "pass"
    /\ check_double_entry_balance.unbalanced_entries = <<>>
    /\ \A i \in DOMAIN journal_entries :
        entry_debits(transaction_lines, i) = entry_credits(transaction_lines, i)

\* C3: a post whose debit total differs from its credit total, by any
\* amount, fails with the unbalanced error that reports both totals, and no
\* account, journal entry or transaction line changes.
C3_UnbalancedRejected ==
    [][(Posting /\ total_debits(pending.transactions)
                    # total_credits(pending.transactions))
        => /\ result' = [status |-> "unbalanced",
                         debits |-> total_debits(pending.transactions),
                         credits |-> total_credits(pending.transactions)]
           /\ UNCHANGED db]_vars

C3_Witness ==
    /\ result.status = "unbalanced"
    /\ result.debits = 4 /\ result.credits = 0
    /\ Len(journal_entries) = 1

\* The change the claimed sign convention gives account `code` of class
\* `account_type` for the proposed lines `ts`.
RECURSIVE claimed_change(_, _, _)
claimed_change(ts, code, account_type) ==
    IF ts = <<>> THEN 0
    ELSE (IF Head(ts).account_code # code THEN 0
          ELSE IF account_type \in {"Asset", "Expense"}
            THEN Head(ts).debit - Head(ts).credit
          ELSE Head(ts).credit - Head(ts).debit)
         + claimed_change(Tail(ts), code, account_type)

\* C7: a successful post changes the cached balance of every account by the
\* sum, over the posting's lines on that account, of debit - credit (Asset,
\* Expense) or credit - debit (Liability, Equity, Revenue).
C7_BalanceChangeBySign ==
    [][(Posting /\ result'.status = "ok")
        => \A c \in DOMAIN accounts :
            accounts'[c].balance - accounts[c].balance
                = claimed_change(pending.transactions, c,
                                 accounts[c].account_type)]_vars

\* C9: the k-th journal entry committed for a date d has the entry number
\* JE-<d>-<k, zero-padded to 3 digits>, whatever was posted on other dates;
\* so the numbers of one date are unique and increase in posting order.
C9_EntryNumbersInOrder ==
    \A i \in DOMAIN journal_entries :
        LET d == journal_entries[i].entry_date
            k == Cardinality({j \in 1..i : journal_entries[j].entry_date = d})
        IN  /\ k < 10
            /\ journal_entries[i].entry_number = <<"JE", d, <<0, 0, k>>>>

C9_Witness ==
    /\ Len(journal_entries) >= 2
    /\ journal_entries[1].entry_date = journal_entries[2].entry_date
    /\ journal_entries[2].entry_number
        = <<"JE", journal_entries[2].entry_date, <<0, 0, 2>>>>

HasAbsentCode(ts) ==
    \E i \in DOMAIN ts : ts[i].account_code \notin DOMAIN accounts

\* C10 as stated: a post with a line, at any position, on an account code
\* the directory does not have is rejected with the account-not-found error
\* and nothing changes (a storage failure aside).
C10_AbsentCodeAlwaysNotFound ==
    [][(Posting /\ HasAbsentCode(pending.transactions)
            /\ result'.status # "storage_error")
        => /\ result'.status = "account_not_found"
           /\ UNCHANGED db]_vars

\* C10, amended: a post with a line, at any position, on an account code
\* the directory does not have changes nothing; it is rejected with the
\* account-not-found error when its totals are equal and with the unbalanced
\* error when they differ (a storage failure aside).
C10_AbsentCodeRejected ==
    [][(Posting /\ HasAbsentCode(pending.transactions))
        => /\ UNCHANGED db
           /\ \/ result'.status = "storage_error"
              \/ result'.status =
                    IF total_debits(pending.transactions)
                            = total_credits(pending.transactions)
                        THEN "account_not_found" ELSE "unbalanced"]_vars

C10_Witness ==
    /\ result.status = "account_not_found"
    /\ Len(journal_entries) = 1
    /\ Len(transaction_lines) = 2

(***************************************************************************)
(* Properties of concurrent postings (SpecConc).                           *)
(***************************************************************************)
Committed(w) == Done(w) /\ sess[w].status = "ok"

\* The sum, over the workers of `ws` whose post has committed, of the change
\* their lines make to account `c`.
RECURSIVE committed_change(_, _)
committed_change(ws, c) ==
    IF ws = {} THEN 0
    ELSE LET w == CHOOSE x \in ws : TRUE
         IN  (IF Committed(w)
                THEN claimed_change(sess[w].transactions, c,
                                    accounts[c].account_type)
                ELSE 0)
             + committed_change(ws \ {w}, c)

LinesOfEntry(i) ==
    {k \in DOMAIN transaction_lines :
        transaction_lines[k].journal_entry_id = i}

\* C4: in every state of the tables, under storage failures and any
\* interleaving, the journal holds exactly the entries of the committed
\* posts, each with all of its lines, and every balance holds exactly the
\* changes of the committed posts' lines: a post is there whole or not at all.
C4_AllOrNothing ==
    /\ Len(journal_entries) = Cardinality({w \in Workers : Committed(w)})
    /\ \A w \in Workers : Committed(w) =>
        \E i \in DOMAIN journal_entries :
            /\ journal_entries[i].entry_number = sess[w].entry_number
            /\ Cardinality(LinesOfEntry(i)) = Len(sess[w].transactions)
    /\ \A i \in DOMAIN journal_entries :
        \E w \in Workers :
            /\ Committed(w)
            /\ journal_entries[i].entry_number = sess[w].entry_number
    /\ \A c \in DOMAIN accounts :
        accounts[c].balance
            = DefaultAccounts[c].balance + committed_change(Workers, c)

\* C5: when the workers' posts, of two lines or more, are all for the same
\* date and none is rejected for its lines or hit by a storage failure, all
\* of them commit and their entry numbers are the sequence numbers 1..N of
\* that date.
C5_ConcurrentNumbersGapless ==
    ((\A w \in Workers :
            /\ Done(w) /\ sess[w].status \in {"ok", "integrity_error"}
            /\ Len(sess[w].transactions) >= 2)
        /\ (\A v, w \in Workers : sess[v].entry_date = sess[w].entry_date))
    => /\ \A w \in Workers : sess[w].status = "ok"
       /\ {sess[w].entry_number : w \in Workers}
            = {FormatEntryNumber(sess[w].entry_date, k) :
                    w \in Workers, k \in 1..Cardinality(Workers)}

\* C6: when the posts of all workers have committed, every account's cached
\* balance is its initial balance plus the changes of all of them.
C6_NoLostUpdate ==
    (\A w \in Workers : Committed(w))
    => \A c \in DOMAIN accounts :
        accounts[c].balance
            = DefaultAccounts[c].balance + committed_change(Workers, c)

(***************************************************************************)
(* Properties of the sign rules (SpecSign).                                *)
(***************************************************************************)
\* C8: for every account class the accounts table can hold and every line,
\* the change _update_account_balance applies equals the term
\* _calculate_balance_from_transactions adds.
C8_SameSignRule ==
    probe.done => probe.posted = probe.audited

(***************************************************************************)
(* Further properties of the sequential ledger (Spec).                     *)
(***************************************************************************)
\* C11: a post with fewer than two lines is rejected, so every journal
\* entry of the journal has at least two transaction lines.
C11_AtLeastTwoLines ==
    \A i \in DOMAIN journal_entries :
        Cardinality({k \in DOMAIN transaction_lines :
                        transaction_lines[k].journal_entry_id = i}) >= 2

(***************************************************************************)
(* Further properties of concurrent postings (SpecConc).                   *)
(***************************************************************************)
\* The entries of the journal that carry the entry number of worker `w`.
EntriesOf(w) ==
    {i \in DOMAIN journal_entries :
        journal_entries[i].entry_number = sess[w].entry_number}

\* The lines of entry `i`, in insertion order, are the lines `ts` proposed.
HoldsLines(i, ts) ==
    LET ks == LinesOfEntry(i)
    IN  /\ Cardinality(ks) = Len(ts)
        /\ \A k \in ks :
            LET n == Cardinality({j \in ks : j <= k})
            IN  /\ transaction_lines[k].account_code = ts[n].account_code
                /\ transaction_lines[k].debit_amount = Numeric2(ts[n].debit)
                /\ transaction_lines[k].credit_amount = Numeric2(ts[n].credit)

\* C12: no posting is silently dropped: a call that has ended either raised
\* an error or returned an entry that is in the journal with all its lines,
\* and the journal holds as many entries as calls have returned successfully.
C12_NoPostingDropped ==
    /\ Len(journal_entries) = Cardinality({w \in Workers : Committed(w)})
    /\ \A w \in Workers :
        Done(w) =>
            \/ sess[w].status \in {"unbalanced", "integrity_error",
                                   "account_not_found", "storage_error"}
            \/ /\ sess[w].status = "ok"
               /\ \E i \in EntriesOf(w) :
                    /\ journal_entries[i].entry_date = sess[w].entry_date
                    /\ HoldsLines(i, sess[w].transactions)

\* One call has returned its two-line entry and the other has raised.
C12_Witness ==
    \E w, v \in Workers :
        /\ Committed(w)
        /\ Len(sess[w].transactions) = 2
        /\ Done(v)
        /\ sess[v].status = "integrity_error"
        /\ C12_NoPostingDropped

(***************************************************************************)
(* The account monitor and the read queries, next to sequential postings.  *)
(* The accounts table holds the six key accounts; date.today() is an input *)
(* of each call, and it never runs backwards.                              *)
(***************************************************************************)
MaxChecks == 2      \* single audit calls that save an AccountCheck

\* AccountMonitor.KEY_ACCOUNTS, in the order of the dict.
KEY_ACCOUNTS == <<"1000", "1100", "2000", "1200", "4000", "5100">>

\* The rows initialize_default_accounts creates for the key accounts.
KeyAccountRows ==
    [c \in {KEY_ACCOUNTS[i] : i \in DOMAIN KEY_ACCOUNTS} |->
        [account_type |->
            CASE c \in {"1000", "1100", "1200"} -> "Asset"
              [] c = "2000" -> "Liability"
              [] c = "4000" -> "Revenue"
              [] c = "5100" -> "Expense",
         balance |-> 0]]

\* The values date.today() takes, and date.today() - timedelta(days=30) for
\* each of them.
Today == {20240110, 20240215}
window_start(today) == IF today = 20240110 THEN 20231211 ELSE 20240116

\* The account codes single audit calls and queries are made for.
AuditedCodes == {"1000", AbsentCode}

\* The postings made next to the audits: a sale, a posting whose amounts are
\* finer than a cent, and an unbalanced one.
MonitoredTransactions ==
    {<<[account_code |-> "1000", debit |-> 10, credit |-> 0],
       [account_code |-> "4000", debit |-> 0, credit |-> 10]>>,
     <<[account_code |-> "1000", debit |-> 4, credit |-> 0],
       [account_code |-> "1000", debit |-> 4, credit |-> 8]>>,
     <<[account_code |-> "1000", debit |-> 10, credit |-> 0]>>}

\* The date of the newest AccountCheck: the clock has reached it.
LastCheckDate ==
    IF account_checks = <<>> THEN 0
    ELSE account_checks[Len(account_checks)].check_date

\* Mutant: the result is not saved.
save_check_result_replacing(checks, code, r) ==
    <<[account_code |-> code,
       check_date |-> r.check_date,
       check_type |-> r.check_type,
       status |-> r.status]>>

\* _save_check_result: one AccountCheck row is added and committed (the
\* details text of the row is left out).

save_check_result(checks, code, r) ==
    Append(checks, [account_code |-> code,
                    check_date |-> r.check_date,
                    check_type |-> r.check_type,
                    status |-> r.status])

\* detect_anomalies, the query: the lines of the account whose entry is
\* dated on or after `start`, from line `k` on, each with its entry.
RECURSIVE recent_transactions(_, _, _)
recent_transactions(k, code, start) ==
    IF k > Len(transaction_lines) THEN <<>>
    ELSE LET t == transaction_lines[k]
             e == journal_entries[t.journal_entry_id]
         IN  (IF t.account_code = code /\ e.entry_date >= start
                THEN <<[entry_number |-> e.entry_number,
                        entry_date |-> e.entry_date,
                        debit_amount |-> t.debit_amount,
                        credit_amount |-> t.credit_amount]>>
                ELSE <<>>)
             \o recent_transactions(k + 1, code, start)

\* abs(debit_amount - credit_amount) of one line of the window.
amount_of(t) == Abs(t.debit_amount - t.credit_amount)

RECURSIVE sum_amounts(_)
sum_amounts(w) ==
    IF w = <<>> THEN 0 ELSE amount_of(Head(w)) + sum_amounts(Tail(w))

\* The sum over the window of (n * amount - sum)^2: n^2 * (n - 1) times the
\* sample variance of the n amounts.
RECURSIVE sum_squares(_, _, _)
sum_squares(w, n, total) ==
    IF w = <<>> THEN 0
    ELSE (n * amount_of(Head(w)) - total) * (n * amount_of(Head(w)) - total)
         + sum_squares(Tail(w), n, total)

\* Mutant: every amount that differs from the mean is unusual.
unusual_amount_off_mean(w, t) ==
    LET n == Len(w)
        total == sum_amounts(w)
    IN  n > 1 /\ n * amount_of(t) # total

\* std_amount > 0 and abs((amount - mean_amount) / std_amount) > 2, with
\* mean_amount = total / n and std_amount the sample standard deviation
\* (0 for a single amount), in integers.
unusual_amount(w, t) ==
    LET n == Len(w)
        total == sum_amounts(w)
        squares == sum_squares(w, n, total)
        dev == n * amount_of(t) - total
    IN  /\ n > 1
        /\ squares > 0
        /\ dev * dev * (n - 1) > 4 * squares

NoAnomaly == [type |-> "none"]

\* The first loop over the window: the lines of unusual amount.
unusual_anomalies(w) ==
    SelectSeq([i \in DOMAIN w |->
                  IF unusual_amount(w, w[i])
                    THEN [type |-> "unusual_amount",
                          entry_number |-> w[i].entry_number,
                          amount |-> amount_of(w[i])]
                    ELSE NoAnomaly],
              LAMBDA a : a # NoAnomaly)

\* Mutant: the key leaves out the entry date.
duplicate_key_without_date(t) == <<t.debit_amount, t.credit_amount>>

\* The key of the `seen` dict for one line of the window.
duplicate_key(t) == <<t.debit_amount, t.credit_amount, t.entry_date>>

\* The second loop over the window: a line whose key an earlier line has
\* is a duplicate of the first line with that key.
duplicate_anomalies(w) ==
    SelectSeq([i \in DOMAIN w |->
                  LET earlier == {j \in 1..(i - 1) :
                                    duplicate_key(w[j]) = duplicate_key(w[i])}
                  IN  IF earlier # {}
                        THEN [type |-> "duplicate",
                              entry_number |-> w[i].entry_number,
                              original_entry |->
                                w[CHOOSE j \in earlier :
                                    \A m \in earlier : j <= m].entry_number]
                        ELSE NoAnomaly],
              LAMBDA a : a # NoAnomaly)

\* Mutant: duplicates alone do not make the status 'warning'.
detect_anomalies_ignoring_duplicates(code, today) ==
    IF code \notin DOMAIN accounts
        THEN [status |-> "error", check_type |-> "none"]
    ELSE LET w == recent_transactions(1, code, window_start(today))
             anomalies == unusual_anomalies(w) \o duplicate_anomalies(w)
         IN  IF w = <<>>
                THEN [account_code |-> code,
                      status |-> "pass",
                      anomalies |-> <<>>,
                      message |-> "No recent transactions"]
             ELSE [account_code |-> code,
                   status |-> IF unusual_anomalies(w) # <<>>
                                THEN "warning" ELSE "pass",
                   anomalies |-> anomalies,
                   total_transactions |-> Len(w),
                   check_type |-> "anomaly",
                   check_date |-> today]

\* detect_anomalies(account_code) with date.today() = today: the result it
\* returns.
detect_anomalies(code, today) ==
    IF code \notin DOMAIN accounts
        THEN [status |-> "error", check_type |-> "none"]
    ELSE LET w == recent_transactions(1, code, window_start(today))
             anomalies == unusual_anomalies(w) \o duplicate_anomalies(w)
         IN  IF w = <<>>
                THEN [account_code |-> code,
                      status |-> "pass",
                      anomalies |-> <<>>,
                      message |-> "No recent transactions"]
             ELSE [account_code |-> code,
                   status |-> IF anomalies # <<>> THEN "warning" ELSE "pass",
                   anomalies |-> anomalies,
                   total_transactions |-> Len(w),
                   check_type |-> "anomaly",
                   check_date |-> today]

\* Whether detect_anomalies reaches its call of _save_check_result.
anomaly_check_saved(r) == "check_type" \in DOMAIN r /\ r.check_type = "anomaly"

\* A result with the check_date the audit puts into it.
dated(r, today) == r @@ [check_date |-> today]

\* create_journal_entry called next to the audits, from the validation to
\* commit or rollback.
PostEntry ==
    /\ pending = NoCall
    /\ result = NoResult
    /\ Len(journal_entries) < MaxEntries
    /\ \E d \in Dates, ts \in MonitoredTransactions, fault \in Faults :
        LET out == post(Tables, d, ts, fault)
        IN  /\ result' = out.result
            /\ accounts' = out.tables.accounts
            /\ journal_entries' = out.tables.journal_entries
            /\ transaction_lines' = out.tables.transaction_lines
    /\ UNCHANGED <<pending, sess, probe, account_checks,
                 raw_transactions>>

\* check_account_balance(account_code): the result is saved as an
\* AccountCheck unless the account is not found.
CheckAccountBalance ==
    /\ pending = NoCall
    /\ result = NoResult
    /\ Len(account_checks) < MaxChecks
    /\ \E code \in AuditedCodes, today \in Today :
        /\ today >= LastCheckDate
        /\ LET r == check_account_balance(code)
           IN  IF r.status = "error"
                 THEN /\ result' = r
                      /\ UNCHANGED account_checks
                 ELSE /\ result' = dated(r, today)
                      /\ account_checks' =
                            save_check_result(account_checks, code,
                                              dated(r, today))
    /\ UNCHANGED <<db, pending, sess, probe, raw_transactions>>

\* detect_anomalies(account_code): the result is saved as an AccountCheck
\* when the account is found and has a line in the window.
DetectAnomalies ==
    /\ pending = NoCall
    /\ result = NoResult
    /\ Len(account_checks) < MaxChecks
    /\ \E code \in AuditedCodes, today \in Today :
        /\ today >= LastCheckDate
        /\ LET r == detect_anomalies(code, today)
           IN  /\ result' = r
               /\ account_checks' =
                    IF anomaly_check_saved(r)
                        THEN save_check_result(account_checks, code, r)
                        ELSE account_checks
    /\ UNCHANGED <<db, pending, sess, probe, raw_transactions>>

\* check_double_entry_balance(): the result is returned, never saved.
CheckDoubleEntryBalance ==
    /\ pending = NoCall
    /\ result = NoResult
    /\ \E today \in Today :
        /\ today >= LastCheckDate
        /\ result' = dated(check_double_entry_balance, today)
    /\ UNCHANGED <<db, pending, sess, probe, account_checks,
                 raw_transactions>>

\* The loop of monitor_all_key_accounts from key account `i` on, then the
\* double-entry validation: the results and the account_checks table.
RECURSIVE sweep(_, _, _)
sweep(i, checks, today) ==
    IF i > Len(KEY_ACCOUNTS)
        THEN [results |-> <<dated(check_double_entry_balance, today)>>,
              checks |-> checks]
    ELSE LET code == KEY_ACCOUNTS[i]
             b == check_account_balance(code)
             c1 == IF b.status = "error" THEN checks
                   ELSE save_check_result(checks, code, dated(b, today))
             a == detect_anomalies(code, today)
             c2 == IF anomaly_check_saved(a)
                    THEN save_check_result(c1, code, a) ELSE c1
             rest == sweep(i + 1, c2, today)
         IN  [results |->
                <<IF b.status = "error" THEN b ELSE dated(b, today), a>>
                \o rest.results,
              checks |-> rest.checks]

\* monitor_all_key_accounts()
MonitorAllKeyAccounts ==
    /\ pending = NoCall
    /\ result = NoResult
    /\ Len(account_checks) < MaxChecks
    /\ \E today \in Today :
        /\ today >= LastCheckDate
        /\ LET out == sweep(1, account_checks, today)
           IN  /\ result' = [status |-> "returned",
                             op |-> "monitor_all_key_accounts",
                             value |-> out.results]
               /\ account_checks' = out.checks
    /\ UNCHANGED <<db, pending, sess, probe, raw_transactions>>

(***************************************************************************)
(* The read queries of the ledger engine and of the monitor.               *)
(***************************************************************************)
NoDate == 0     \* the argument None of a date parameter
NoCode == "None"

\* session.query(Account).all(): the rows in the order of their ids, which
\* is the order initialize_default_accounts creates them in.
AccountOrder == <<"1000", "1100", "1200", "2000", "4000", "5100">>

\* get_account_balance(account_code, as_of_date)
get_account_balance(code, as_of_date) ==
    IF code \notin DOMAIN accounts THEN 0 ELSE accounts[code].balance

\* get_trial_balance: the row of one account.
trial_balance_row(code) ==
    LET balance == accounts[code].balance
        own == IF balance > 0 THEN balance ELSE 0
        other == IF balance < 0 THEN -balance ELSE 0
    IN  IF accounts[code].account_type \in {"Asset", "Expense"}
            THEN [account_code |-> code, debit |-> own, credit |-> other]
            ELSE [account_code |-> code, debit |-> other, credit |-> own]

RECURSIVE sum_debit(_)
sum_debit(rows) ==
    IF rows = <<>> THEN 0 ELSE Head(rows).debit + sum_debit(Tail(rows))

RECURSIVE sum_credit(_)
sum_credit(rows) ==
    IF rows = <<>> THEN 0 ELSE Head(rows).credit + sum_credit(Tail(rows))

\* get_trial_balance(): a row for every account of nonzero balance, then
\* the TOTAL row.
get_trial_balance ==
    LET codes == SelectSeq(AccountOrder,
                    LAMBDA c : c \in DOMAIN accounts
                               /\ accounts[c].balance # 0)
        rows == [i \in DOMAIN codes |-> trial_balance_row(codes[i])]
    IN  Append(rows, [account_code |-> "TOTAL",
                      debit |-> sum_debit(rows),
                      credit |-> sum_credit(rows)])

\* String comparison of two entry numbers of the same date: the digits of
\* the sequence number, compared from the left.
RECURSIVE digits_less(_, _)
digits_less(a, b) ==
    IF a = <<>> THEN b # <<>>
    ELSE IF b = <<>> THEN FALSE
    ELSE IF Head(a) # Head(b) THEN Head(a) < Head(b)
    ELSE digits_less(Tail(a), Tail(b))

\* order_by(JournalEntry.entry_date, JournalEntry.entry_number) on the
\* lines `j` and `k` of the table; lines of one entry keep their id order.
ledger_before(j, k) ==
    LET e == journal_entries[transaction_lines[j].journal_entry_id]
        f == journal_entries[transaction_lines[k].journal_entry_id]
    IN  \/ e.entry_date < f.entry_date
        \/ /\ e.entry_date = f.entry_date
           /\ digits_less(e.entry_number[3], f.entry_number[3])
        \/ /\ e.entry_date = f.entry_date
           /\ e.entry_number = f.entry_number
           /\ j < k

\* get_general_ledger(account_code, start_date, end_date)
get_general_ledger(code, start_date, end_date) ==
    LET picked == {k \in DOMAIN transaction_lines :
            LET t == transaction_lines[k]
                e == journal_entries[t.journal_entry_id]
            IN  /\ (code # NoCode /\ code \in DOMAIN accounts)
                        => t.account_code = code
                /\ start_date # NoDate => e.entry_date >= start_date
                /\ end_date # NoDate => e.entry_date <= end_date}
        at(n) == CHOOSE k \in picked :
                    Cardinality({j \in picked : ledger_before(j, k)}) = n - 1
    IN  [n \in 1..Cardinality(picked) |->
            LET t == transaction_lines[at(n)]
                e == journal_entries[t.journal_entry_id]
            IN  [date |-> e.entry_date,
                 entry_number |-> e.entry_number,
                 account_code |-> t.account_code,
                 debit |-> t.debit_amount,
                 credit |-> t.credit_amount]]

\* The default of the parameter `limit` of get_check_history is 10; the
\* calls made here ask for one record or for up to two.
Limits == {1, 2}

\* get_check_history: the orders in which the database may hand back the
\* checks `mine` under order_by(check_date.desc()): newest date first, rows
\* of one date in any order.
check_orders_oldest_first(mine) ==
    {f \in [1..Cardinality(mine) -> mine] :
        /\ \A i, j \in DOMAIN f : i # j => f[i] # f[j]
        /\ \A i, j \in DOMAIN f :
            i < j => account_checks[f[i]].check_date
                        <= account_checks[f[j]].check_date}

check_orders(mine) ==
    {f \in [1..Cardinality(mine) -> mine] :
        /\ \A i, j \in DOMAIN f : i # j => f[i] # f[j]
        /\ \A i, j \in DOMAIN f :
            i < j => account_checks[f[i]].check_date
                        >= account_checks[f[j]].check_date}

\* get_check_history(account_code, limit): the lists it may return.
get_check_history(code, limit) ==
    IF code \notin DOMAIN accounts THEN {<<>>}
    ELSE LET mine == {k \in DOMAIN account_checks :
                        account_checks[k].account_code = code}
             n == IF Cardinality(mine) < limit
                    THEN Cardinality(mine) ELSE limit
         IN  {[i \in 1..n |->
                 [check_date |-> account_checks[f[i]].check_date,
                  check_type |-> account_checks[f[i]].check_type,
                  status |-> account_checks[f[i]].status]] :
              f \in check_orders(mine)}

returned(op, value) == [status |-> "returned", op |-> op, value |-> value]

GetCheckHistory ==
    /\ pending = NoCall
    /\ result = NoResult
    /\ \E code \in AuditedCodes, limit \in Limits :
        \E rows \in get_check_history(code, limit) :
            result' = returned("get_check_history", rows)
                        @@ [account_code |-> code, limit |-> limit]
    /\ UNCHANGED <<db, pending, sess, probe, account_checks,
                 raw_transactions>>

GetAccountBalance ==
    /\ pending = NoCall
    /\ result = NoResult
    /\ \E code \in AuditedCodes, as_of_date \in {NoDate} \cup Dates :
        result' = returned("get_account_balance",
                           get_account_balance(code, as_of_date))
                    @@ [account_code |-> code, as_of_date |-> as_of_date]
    /\ UNCHANGED <<db, pending, sess, probe, account_checks,
                 raw_transactions>>

GetTrialBalance ==
    /\ pending = NoCall
    /\ result = NoResult
    /\ result' = returned("get_trial_balance", get_trial_balance)
    /\ UNCHANGED <<db, pending, sess, probe, account_checks,
                 raw_transactions>>

GetGeneralLedger ==
    /\ pending = NoCall
    /\ result = NoResult
    /\ \E code \in {NoCode} \cup AuditedCodes,
          start_date \in {NoDate, 20240106}, end_date \in {NoDate, 20240105} :
        result' = returned("get_general_ledger",
                           get_general_ledger(code, start_date, end_date))
    /\ UNCHANGED <<db, pending, sess, probe, account_checks,
                 raw_transactions>>

\* The state after create_tables and initialize_default_accounts, for the
\* key accounts.
InitMonitor ==
    /\ accounts = KeyAccountRows
    /\ journal_entries = <<>>
    /\ transaction_lines = <<>>
    /\ pending = NoCall
    /\ result = NoResult
    /\ sess = [w \in Workers |-> Idle]
    /\ probe = NoProbe
    /\ account_checks = <<>>
    /\ raw_transactions = <<>>

NextMonitor ==
    \/ PostEntry
    \/ CheckAccountBalance
    \/ DetectAnomalies
    \/ CheckDoubleEntryBalance
    \/ MonitorAllKeyAccounts
    \/ GetCheckHistory
    \/ GetAccountBalance
    \/ GetTrialBalance
    \/ GetGeneralLedger
    \/ Return

SpecMonitor == InitMonitor /\ [][NextMonitor]_vars

(***************************************************************************)
(* Properties of the monitor, the queries and the postings (SpecMonitor).  *)
(***************************************************************************)
IsPrefix(a, b) == Len(a) <= Len(b) /\ \A i \in DOMAIN a : a[i] = b[i]

C14_BalanceOnlyByPost ==
    [][/\ result'.status # "ok" => UNCHANGED db
       /\ \A c \in DOMAIN accounts :
            accounts'[c].balance # accounts[c].balance
                => /\ result'.status = "ok"
                   /\ \E k \in DOMAIN transaction_lines'
                                \ DOMAIN transaction_lines :
                        transaction_lines'[k].account_code = c]_vars

\* An audit has just been saved for an account whose balance postings have
\* changed.
C14_Witness ==
    /\ result.status \in {"pass", "fail", "warning"}
    /\ accounts["1000"].balance # 0
    /\ account_checks # <<>>
    /\ account_checks[Len(account_checks)].account_code = "1000"

RECURSIVE derived_balance(_, _)
derived_balance(ks, code) ==
    IF ks = {} THEN 0
    ELSE LET k == CHOOSE x \in ks : TRUE
             t == transaction_lines[k]
         IN  (IF t.account_code # code THEN 0
              ELSE IF accounts[code].account_type \in {"Asset", "Expense"}
                THEN t.debit_amount - t.credit_amount
              ELSE t.credit_amount - t.debit_amount)
             + derived_balance(ks \ {k}, code)

\* The results of check_account_balance in what a call has returned: the
\* result of a single call, or the balance results of a sweep.
IsBalanceResult(r) == "check_type" \in DOMAIN r /\ r.check_type = "balance"

BalanceResults(r) ==
    IF IsBalanceResult(r) THEN {r}
    ELSE IF "op" \in DOMAIN r /\ r.op = "monitor_all_key_accounts"
        THEN {r.value[i] : i \in {j \in DOMAIN r.value :
                                    IsBalanceResult(r.value[j])}}
    ELSE {}

\* C16: check_account_balance on an existing account returns 'pass' exactly
\* when |stored balance - balance derived from history| < 0.01 and 'fail'
\* otherwise, and its difference is stored - derived.
C16_BalanceCheckVerdict ==
    [][\A r \in BalanceResults(result') :
        LET stored == accounts[r.account_code].balance
            derived == derived_balance(DOMAIN transaction_lines,
                                       r.account_code)
        IN  /\ r.difference = stored - derived
            /\ r.status \in {"pass", "fail"}
            /\ r.status = "pass" <=> Abs(stored - derived) < Cent]_vars

\* A single check has returned 'fail' for a difference of exactly 0.01.
C16_Witness ==
    /\ IsBalanceResult(result)
    /\ result.status = "fail"
    /\ result.difference = Cent
    /\ account_checks # <<>>

\* The sum of the debit amounts less the sum of the credit amounts of the
\* lines `ks` of the table.
RECURSIVE differential(_)
differential(ks) ==
    IF ks = {} THEN 0
    ELSE LET k == CHOOSE x \in ks : TRUE
         IN  transaction_lines[k].debit_amount
             - transaction_lines[k].credit_amount
             + differential(ks \ {k})

\* The results of check_double_entry_balance in what a call has returned.
IsDoubleEntryResult(r) ==
    "check_type" \in DOMAIN r /\ r.check_type = "double_entry"

DoubleEntryResults(r) ==
    IF IsDoubleEntryResult(r) THEN {r}
    ELSE IF "op" \in DOMAIN r /\ r.op = "monitor_all_key_accounts"
        THEN {r.value[i] : i \in {j \in DOMAIN r.value :
                                    IsDoubleEntryResult(r.value[j])}}
    ELSE {}

\* C17: check_double_entry_balance lists exactly the journal entries whose
\* lines' debit sum differs from their credit sum, once each, in the order
\* of the journal and with the differential debits - credits; its status is
\* 'fail' iff the list is not empty and total_entries counts the journal.
C17_DoubleEntryCheckExact ==
    [][\A r \in DoubleEntryResults(result') :
        LET bad == {i \in DOMAIN journal_entries :
                        differential(LinesOfEntry(i)) # 0}
            listed == r.unbalanced_entries
        IN  /\ r.total_entries = Len(journal_entries)
            /\ Len(listed) = Cardinality(bad)
            /\ \A n \in DOMAIN listed :
                \E i \in bad :
                    /\ Cardinality({j \in bad : j <= i}) = n
                    /\ listed[n].entry_number
                            = journal_entries[i].entry_number
                    /\ listed[n].difference = differential(LinesOfEntry(i))
                    /\ listed[n].debits - listed[n].credits
                            = listed[n].difference
            /\ r.status = (IF listed # <<>> THEN "fail" ELSE "pass")]_vars

\* A single check over two entries has listed the one whose stored lines
\* do not balance.
C17_Witness ==
    /\ IsDoubleEntryResult(result)
    /\ result.status = "fail"
    /\ result.total_entries = 2
    /\ Len(result.unbalanced_entries) = 1
    /\ result.unbalanced_entries[1].difference = -Cent

\* C18: over a journal with zero entries check_double_entry_balance
\* returns status 'pass' with an empty unbalanced_entries list.
C18_EmptyJournalPasses ==
    [][\A r \in DoubleEntryResults(result') :
        journal_entries = <<>>
            => /\ r.status = "pass"
               /\ r.unbalanced_entries = <<>>
               /\ r.total_entries = 0]_vars

\* A single check has returned for the journal without entries.
C18_Witness ==
    /\ IsDoubleEntryResult(result)
    /\ journal_entries = <<>>
    /\ transaction_lines = <<>>
    /\ result.status = "pass"

\* The step is a single audit call that has returned a verdict.
SingleAuditReturns ==
    /\ result = NoResult
    /\ result'.status \in {"pass", "fail", "warning"}

\* C19: each single audit call (check_account_balance, detect_anomalies,
\* check_double_entry_balance) that returns a verdict adds exactly one
\* AccountCheck row, whose check kind and outcome are those of the result.
C19_EachAuditSavesOneCheck ==
    [][SingleAuditReturns
        => /\ Len(account_checks') = Len(account_checks) + 1
           /\ IsPrefix(account_checks, account_checks')
           /\ account_checks'[Len(account_checks')].check_type
                = result'.check_type
           /\ account_checks'[Len(account_checks')].status
                = result'.status]_vars

\* The rows of the account_checks table `checks` that belong to `code`.
ChecksOf(checks, code) ==
    {k \in DOMAIN checks : checks[k].account_code = code}

\* C20: one sweep of monitor_all_key_accounts adds exactly one AccountCheck
\* row for each of the key accounts.
C20_SweepSavesOnePerAccount ==
    [][(result = NoResult
        /\ "op" \in DOMAIN result'
        /\ result'.op = "monitor_all_key_accounts")
        => \A i \in DOMAIN KEY_ACCOUNTS :
            Cardinality(ChecksOf(account_checks', KEY_ACCOUNTS[i]))
                = Cardinality(ChecksOf(account_checks, KEY_ACCOUNTS[i])) + 1
      ]_vars

\* What a call has handed back as a result dict of an audit (a raised
\* exception has one of the statuses of a failed post instead).
IsAuditResult(r) == r.status \in {"pass", "fail", "warning", "error"}

\* C21: audits return their findings as 'pass', 'fail' or 'warning'
\* results, and an audit asked for an account code without an account row
\* raises instead of returning a result: no audit call returns a result of
\* status 'error', and every result that names an account names a row.
C21_MissingAccountRaises ==
    [][(result = NoResult /\ IsAuditResult(result'))
        => /\ result'.status \in {"pass", "fail", "warning"}
           /\ "account_code" \in DOMAIN result'
                => result'.account_code \in DOMAIN accounts]_vars

(***************************************************************************)
(* A run of cash sales next to anomaly detection: enough lines on the Cash *)
(* account for the statistics of detect_anomalies to matter.               *)
(***************************************************************************)
MaxSales == 11      \* journal entries of the run
MaxOdd == 1         \* entries of the run that are not the usual sale

\* The usual sale of the run, and the entries that differ from it: a sale
\* five times larger, a sale dated the next day, and a sale entered with a
\* negative amount.
UsualSale == [amount |-> 10, entry_date |-> 20240105]

OddSales ==
    {[amount |-> 50, entry_date |-> 20240105],
     [amount |-> 10, entry_date |-> 20240106],
     [amount |-> -10, entry_date |-> 20240105]}

\* The lines proposed for a cash sale: debit Cash, credit Sales Revenue.
sale_lines(amount) ==
    <<[account_code |-> "1000", debit |-> amount, credit |-> 0],
      [account_code |-> "4000", debit |-> 0, credit |-> amount]>>

\* The entries of the journal that are not the usual sale.
OddEntries ==
    {i \in DOMAIN journal_entries :
        \/ journal_entries[i].entry_date # UsualSale.entry_date
        \/ \E k \in LinesOfEntry(i) :
            /\ transaction_lines[k].account_code = "1000"
            /\ transaction_lines[k].debit_amount # UsualSale.amount}

\* create_journal_entry called for one cash sale, from the validation to
\* commit or rollback.
PostSale ==
    /\ pending = NoCall
    /\ result = NoResult
    /\ Len(journal_entries) < MaxSales
    /\ \E kind \in {UsualSale} \cup OddSales, fault \in Faults :
        /\ kind # UsualSale => Cardinality(OddEntries) < MaxOdd
        /\ LET out == post(Tables, kind.entry_date,
                           sale_lines(kind.amount), fault)
           IN  /\ result' = out.result
               /\ accounts' = out.tables.accounts
               /\ journal_entries' = out.tables.journal_entries
               /\ transaction_lines' = out.tables.transaction_lines
    /\ UNCHANGED <<pending, sess, probe, account_checks,
                 raw_transactions>>

NextSales == PostSale \/ DetectAnomalies \/ Return

SpecSales == InitMonitor /\ [][NextSales]_vars

(***************************************************************************)
(* Properties of anomaly detection over the run of sales (SpecSales).      *)
(***************************************************************************)
\* A result of detect_anomalies for an account with lines in the window.
IsAnomalyResult(r) == "check_type" \in DOMAIN r /\ r.check_type = "anomaly"

\* The lines of the table that were in the window of the result `r`.
WindowOf(r) ==
    {k \in DOMAIN transaction_lines :
        /\ transaction_lines[k].account_code = r.account_code
        /\ journal_entries[transaction_lines[k].journal_entry_id].entry_date
            >= window_start(r.check_date)}

EntryOfLine(k) == journal_entries[transaction_lines[k].journal_entry_id]

\* Lines `j` and `k` carry the same (debit amount, credit amount, entry date).
SameTuple(j, k) ==
    /\ transaction_lines[j].debit_amount = transaction_lines[k].debit_amount
    /\ transaction_lines[j].credit_amount = transaction_lines[k].credit_amount
    /\ EntryOfLine(j).entry_date = EntryOfLine(k).entry_date

AnomaliesOfType(r, type) == SelectSeq(r.anomalies, LAMBDA a : a.type = type)

\* C22: in the window of detect_anomalies the first line of each tuple
\* (debit amount, credit amount, entry date) is not flagged, and every later
\* line of the tuple is flagged 'duplicate' once, with the entry number of
\* the first line of the tuple as original_entry.
C22_DuplicatesAfterFirst ==
    [][(result = NoResult /\ IsAnomalyResult(result'))
        => LET w == WindowOf(result')
               later == {k \in w : \E j \in w : j < k /\ SameTuple(j, k)}
               flagged == AnomaliesOfType(result', "duplicate")
           IN  /\ Len(flagged) = Cardinality(later)
               /\ \A n \in DOMAIN flagged :
                    \E k \in later :
                        /\ Cardinality({j \in later : j <= k}) = n
                        /\ flagged[n].entry_number
                                = EntryOfLine(k).entry_number
                        /\ \E first \in w :
                            /\ SameTuple(first, k)
                            /\ \A j \in w : SameTuple(j, k) => first <= j
                            /\ flagged[n].original_entry
                                    = EntryOfLine(first).entry_number]_vars

\* Three sales of one tuple and a sale of the next day were in the window:
\* the second and the third are flagged, both referring to the first.
C22_Witness ==
    /\ IsAnomalyResult(result)
    /\ result.total_transactions = 4
    /\ Len(AnomaliesOfType(result, "duplicate")) = 2
    /\ \A n \in {1, 2} :
        AnomaliesOfType(result, "duplicate")[n].original_entry
            = <<"JE", 20240105, <<0, 0, 1>>>>
    /\ \E i \in DOMAIN journal_entries :
        journal_entries[i].entry_date = 20240106

AmountOfLine(k) ==
    Abs(transaction_lines[k].debit_amount - transaction_lines[k].credit_amount)

\* C23: when the window holds 10 lines of one absolute amount and one line
\* 5 times larger, detect_anomalies flags exactly the larger line as
\* 'unusual_amount' and none of the 10 others.
C23_OutlierFlagged ==
    [][(result = NoResult /\ IsAnomalyResult(result'))
        => LET w == WindowOf(result')
               flagged == AnomaliesOfType(result', "unusual_amount")
           IN  \A big \in w :
                (/\ Cardinality(w) = 11
                 /\ AmountOfLine(big) > 0
                 /\ \A k \in w \ {big} :
                        5 * AmountOfLine(k) = AmountOfLine(big))
                => /\ Len(flagged) = 1
                   /\ flagged[1].entry_number = EntryOfLine(big).entry_number
                   /\ flagged[1].amount = AmountOfLine(big)]_vars

\* Ten sales of 0.01 and one of 0.05 were in the window, and one line is
\* flagged as unusual.
C23_Witness ==
    /\ IsAnomalyResult(result)
    /\ result.total_transactions = 11
    /\ Len(AnomaliesOfType(result, "unusual_amount")) = 1
    /\ AnomaliesOfType(result, "unusual_amount")[1].amount = 5 * Cent
    /\ Cardinality({k \in DOMAIN transaction_lines :
            transaction_lines[k].account_code = "1000"
            /\ AmountOfLine(k) = Cent}) = 10

\* A result of detect_anomalies for an existing account, and the number of
\* lines its window held.
IsDetectionResult(r) == "anomalies" \in DOMAIN r

WindowSize(r) == IF IsAnomalyResult(r) THEN r.total_transactions ELSE 0

\* C24: when the window of detect_anomalies holds 0 or 1 line, the result
\* has status 'pass', no anomaly and an explicit note (message) that the
\* data is insufficient.
C24_InsufficientDataNoted ==
    [][(result = NoResult /\ IsDetectionResult(result')
            /\ WindowSize(result') < 2)
        => /\ result'.status = "pass"
           /\ result'.anomalies = <<>>
           /\ "message" \in DOMAIN result']_vars

\* C25: the status of detect_anomalies on an existing account is 'warning'
\* if and only if it found at least one anomaly (unusual_amount or
\* duplicate), and 'pass' otherwise; a repeated tuple in the window is such
\* an anomaly.
C25_WarningIffAnomaly ==
    [][(result = NoResult /\ IsDetectionResult(result'))
        => /\ result'.status \in {"pass", "warning"}
           /\ result'.status = "warning" <=> result'.anomalies # <<>>
           /\ \A n \in DOMAIN result'.anomalies :
                result'.anomalies[n].type \in {"unusual_amount", "duplicate"}
           /\ IsAnomalyResult(result')
                => ((\E j, k \in WindowOf(result') :
                        j < k /\ SameTuple(j, k))
                    => result'.status = "warning")]_vars

\* Two sales of one tuple were in the window and the status is 'warning'.
C25_Witness ==
    /\ IsAnomalyResult(result)
    /\ result.status = "warning"
    /\ result.total_transactions = 2
    /\ Len(result.anomalies) = 1
    /\ account_checks # <<>>
    /\ account_checks[Len(account_checks)].status = "warning"

(***************************************************************************)
(* check_account_balance next to concurrent postings. The audit reads the  *)
(* account row, then the transaction lines, in two queries; a posting may  *)
(* commit between them. A caller that got 'fail' runs the check again once *)
(* no posting is in flight.                                                *)
(***************************************************************************)
\* What check_account_balance returns for the balance `stored` it read from
\* the account row and the lines of the table as they are now.
compare_balance(code, stored) ==
    LET calculated == calculate_balance_from_transactions(
                          transaction_lines, code,
                          accounts[code].account_type)
    IN  [account_code |-> code,
         stored_balance |-> stored,
         calculated_balance |-> calculated,
         difference |-> stored - calculated,
         status |-> IF Abs(stored - calculated) < Tolerance
                        THEN "pass" ELSE "fail",
         check_type |-> "balance"]

\* l.35: the account row is read; its balance is the stored balance of the
\* check. The length of the journal at this read is kept for the properties.
CheckReadsAccount ==
    /\ pending = NoCall
    /\ result = NoResult
    /\ Len(account_checks) < MaxChecks
    /\ pending' = [op |-> "check_account_balance",
                   account_code |-> "1000",
                   balance |-> accounts["1000"].balance,
                   entries_read |-> Len(journal_entries)]
    /\ UNCHANGED <<db, result, sess, probe, account_checks,
                 raw_transactions>>

\* l.40-59: the lines are read and summed, the verdict is saved and
\* returned. On 'fail' the caller will run the check again; `transient`
\* records that a posting on the account committed between the two reads
\* and that the tables as they are now would have passed.
CheckReadsLines ==
    /\ pending.op = "check_account_balance"
    /\ \E today \in Today :
        /\ today >= LastCheckDate
        /\ LET code == pending.account_code
               r == dated(compare_balance(code, pending.balance), today)
               straddled ==
                   \E k \in DOMAIN transaction_lines :
                        /\ transaction_lines[k].journal_entry_id
                                > pending.entries_read
                        /\ transaction_lines[k].account_code = code
           IN  /\ result' = r
               /\ account_checks' = save_check_result(account_checks, code, r)
               /\ pending' =
                    IF r.status = "fail"
                        THEN [op |-> "retry", account_code |-> code,
                              transient |->
                                straddled
                                /\ check_account_balance(code).status = "pass"]
                        ELSE NoCall
    /\ UNCHANGED <<db, sess, probe, raw_transactions>>

\* The caller runs check_account_balance again while no posting is in
\* flight: both reads see the same tables.
CheckAgain ==
    /\ pending.op = "retry"
    /\ \A w \in Workers : ~InFlight(w)
    /\ \E today \in Today :
        /\ today >= LastCheckDate
        /\ LET r == dated(check_account_balance(pending.account_code), today)
           IN  /\ result' = r
               /\ account_checks' =
                    save_check_result(account_checks, pending.account_code, r)
    /\ pending' = NoCall
    /\ UNCHANGED <<db, sess, probe, raw_transactions>>

NextReconcile ==
    \/ \E w \in Workers :
        Start(w) \/ Flush(w) \/ Line(w) \/ Commit(w) \/ Fail(w)
    \/ CheckReadsAccount
    \/ CheckReadsLines
    \/ CheckAgain
    \/ Return

SpecReconcile == Init /\ [][NextReconcile]_vars

\* C26: a 'fail' of check_account_balance that is due only to a posting
\* committing between its two reads is transient: the check run again once
\* no posting is in flight returns 'pass'.
C26_TransientMismatchClears ==
    [][(pending.op = "retry" /\ pending.transient /\ pending' = NoCall)
        => result'.status = "pass"]_vars

\* A step that returns from one of the monitor's audit operations.
AuditReturns ==
    \/ SingleAuditReturns
    \/ /\ result = NoResult
       /\ result'.status = "returned"
       /\ result'.op = "monitor_all_key_accounts"

C28_LineAmountsNonNegative ==
    \A k \in DOMAIN transaction_lines :
        /\ transaction_lines[k].debit_amount >= 0
        /\ transaction_lines[k].credit_amount >= 0

\* The step is a whole run of create_journal_entry on the call `pending`.
PostReturns ==
    /\ pending # NoCall
    /\ pending.op = "create_journal_entry"
    /\ pending' = NoCall

\* The proposed totals of `ts` are equal and every line names an account.
Acceptable(ts) ==
    /\ double_entry_valid(ts)
    /\ \A i \in DOMAIN ts : ts[i].account_code \in DOMAIN accounts

\* C29: only the equality of the totals is enforced: a post whose totals
\* balance is accepted (short of a storage failure) also when a line
\* carries both a debit and a credit, and every line of an accepted post
\* is stored with exactly the debit and the credit that were proposed.
C29_LinesStoredAsProposed ==
    [][PostReturns
        => LET ts == pending.transactions
               n == Len(transaction_lines)
           IN  /\ Acceptable(ts)
                    => result'.status \in {"ok", "storage_error",
                                           "integrity_error"}
               /\ result'.status = "ok"
                    => /\ Len(transaction_lines') = n + Len(ts)
                       /\ \A i \in DOMAIN ts :
                            /\ transaction_lines'[n + i].debit_amount
                                    = ts[i].debit
                            /\ transaction_lines'[n + i].credit_amount
                                    = ts[i].credit]_vars

\* The record get_check_history builds from the AccountCheck row `k`.
history_row(k) ==
    [check_date |-> account_checks[k].check_date,
     check_type |-> account_checks[k].check_type,
     status |-> account_checks[k].status]

\* C30: get_check_history(account_code, limit) returns at most `limit`
\* records, each a different check of that account, newest check date
\* first, and no check of the account that was left out is dated later
\* than a returned one; nothing is left out while fewer than `limit` are
\* returned, and an account code without a row gets the empty list.
C30_HistoryMostRecentFirst ==
    (result.status = "returned" /\ result.op = "get_check_history")
    => LET rows == result.value
           code == result.account_code
           mine == {k \in DOMAIN account_checks :
                        account_checks[k].account_code = code}
       IN  /\ Len(rows) <= result.limit
           /\ code \notin DOMAIN accounts => rows = <<>>
           /\ \A i, j \in DOMAIN rows :
                i < j => rows[i].check_date >= rows[j].check_date
           /\ \E f \in [DOMAIN rows -> mine] :
                /\ \A i, j \in DOMAIN rows : i # j => f[i] # f[j]
                /\ \A i \in DOMAIN rows : rows[i] = history_row(f[i])
                /\ \A k \in mine \ {f[i] : i \in DOMAIN rows} :
                    /\ Len(rows) = result.limit
                    /\ \A i \in DOMAIN rows :
                        account_checks[k].check_date <= rows[i].check_date

\* The account has an older and a newer check, other accounts have checks
\* too, and a history of one record has returned the newer one.
C30_Witness ==
    /\ result.status = "returned"
    /\ result.op = "get_check_history"
    /\ result.account_code = "1000"
    /\ result.limit = 1
    /\ Len(result.value) = 1
    /\ result.value[1].check_date = 20240215
    /\ \E k \in DOMAIN account_checks :
        /\ account_checks[k].account_code = "1000"
        /\ account_checks[k].check_date = 20240110
    /\ \E k \in DOMAIN account_checks :
        account_checks[k].account_code = "4000"

(***************************************************************************)
(* The journal generator: raw transactions are saved by the ingestion and  *)
(* turned into journal entries by process_pending_transactions.            *)
(***************************************************************************)
MaxRaw == 2         \* rows of the raw_transactions table
MaxPosted == 3      \* journal entries before the generator is asked again

\* amount of a raw transaction: money in (0.01) and money out (-0.01).
RawAmounts == {10, -10}

\* journal_entry_id of a raw transaction that points nowhere (NULL).
NoEntry == 0

\* The account codes categorize_transaction may suggest: a revenue account,
\* the operating expenses, and a code the chart of accounts does not have.
ClassifierCodes == {"4000", "5100", AbsentCode}

\* The argument None of process_pending_transactions(limit).
NoLimit == 0

\* DataIngestion.save_raw_transactions, one row: it is saved unprocessed.
SaveRawTransactions ==
    /\ pending = NoCall
    /\ result = NoResult
    /\ Len(raw_transactions) < MaxRaw
    /\ \E d \in Dates, a \in RawAmounts :
        raw_transactions' =
            Append(raw_transactions,
                   [transaction_date |-> d, amount |-> a,
                    processed |-> FALSE, journal_entry_id |-> NoEntry])
    /\ UNCHANGED <<db, pending, result, sess, probe, account_checks>>

\* generate_entry_from_transaction, l.36-101: the lines proposed for the
\* raw transaction `raw` when the classifier suggests `account_code`. The
\* account row looked at is the suggested one or, when there is none, the
\* row of 5100; the lines name `account_code` itself.
generator_transactions(tables, raw, account_code) ==
    LET account == IF account_code \in DOMAIN tables.accounts
                     THEN tables.accounts[account_code]
                     ELSE tables.accounts["5100"]
        amount == Abs(raw.amount)
        cash_debited ==
            <<[account_code |-> "1000", debit |-> amount, credit |-> 0],
              [account_code |-> account_code, debit |-> 0,
               credit |-> amount]>>
        cash_credited ==
            <<[account_code |-> account_code, debit |-> amount,
               credit |-> 0],
              [account_code |-> "1000", debit |-> 0, credit |-> amount]>>
    IN  IF raw.amount > 0
          THEN IF "1000" \notin DOMAIN tables.accounts THEN <<>>
               ELSE IF account.account_type = "Revenue"
                      THEN cash_debited ELSE cash_credited
          ELSE cash_credited

\* The JournalEntry object create_journal_entry hands back: the commit has
\* expired its attributes (sessionmaker's default expire_on_commit) and the
\* close in `finally` has detached it from its session.
returned_journal_entry(tables) ==
    [id |-> Len(tables.journal_entries), expired |-> TRUE, attached |-> FALSE]

\* Reading an attribute of an ORM object: an expired attribute is loaded
\* through the object's session, and raises when there is none.
attribute_readable(obj) == ~obj.expired \/ obj.attached

\* l.115-121: the raw transaction is marked and saved through the session
\* of generate_entry_from_transaction. `owned_elsewhere` says that the row
\* object belongs to another open session (the one that queried it), in
\* which case session.add raises. FALSE is returned where the code raises.
can_mark_processed(entry, owned_elsewhere) ==
    attribute_readable(entry) /\ ~owned_elsewhere

\* generate_entry_from_transaction on row `i`, the classifier suggesting
\* the account `code`, the row object being `owned` by another session or
\* not: the tables and raw rows it leaves, and whether it returned a
\* result (TRUE) or None (FALSE).
generate_entry_from_transaction(tables, raws, i, code, fault, owned) ==
    LET raw == raws[i]
        ts == generator_transactions(tables, raw, code)
        out == post(tables, raw.transaction_date, ts, fault)
        entry == returned_journal_entry(out.tables)
    IN  IF ts = <<>>
          THEN [tables |-> tables, raws |-> raws, generated |-> FALSE]
        ELSE IF out.result.status # "ok"
          THEN [tables |-> out.tables, raws |-> raws, generated |-> FALSE]
        ELSE IF ~can_mark_processed(entry, owned)
          THEN [tables |-> out.tables, raws |-> raws, generated |-> FALSE]
        ELSE [tables |-> out.tables,
              raws |-> [raws EXCEPT ![i] =
                            [@ EXCEPT !.processed = TRUE,
                                      !.journal_entry_id = entry.id]],
              generated |-> TRUE]

\* All the sequences of `n` different elements of the set `rows`.
orderings(rows, n) ==
    {f \in [1..n -> rows] : \A i, j \in 1..n : i # j => f[i] # f[j]}

\* process_pending_transactions, the query: filter_by(processed=False),
\* cut to `limit` rows when a limit is given; no order is asked for.
pending_selections(limit) ==
    LET unprocessed == {i \in DOMAIN raw_transactions :
                            ~raw_transactions[i].processed}
        n == IF limit = NoLimit \/ Cardinality(unprocessed) < limit
               THEN Cardinality(unprocessed) ELSE limit
    IN  orderings(unprocessed, n)

\* process_pending_transactions, the loop over the selected rows from the
\* k-th on; choice[k] is what the classifier suggests for that row and the
\* storage fault its post meets.
RECURSIVE process_from(_, _, _, _, _, _)
process_from(k, selected, choice, tables, raws, results) ==
    IF k > Len(selected)
      THEN [tables |-> tables, raws |-> raws, results |-> results]
      ELSE LET out == generate_entry_from_transaction(
                          tables, raws, selected[k], choice[k][1],
                          choice[k][2], TRUE)
           IN  process_from(k + 1, selected, choice, out.tables, out.raws,
                            IF out.generated
                              THEN Append(results, selected[k])
                              ELSE results)

ProcessPendingTransactions ==
    /\ pending = NoCall
    /\ result = NoResult
    /\ Len(journal_entries) < MaxPosted
    /\ \E limit \in {NoLimit, 1} :
        \E selected \in pending_selections(limit) :
          \E choice \in [DOMAIN selected -> ClassifierCodes \X Faults] :
            LET out == process_from(1, selected, choice, Tables,
                                    raw_transactions, <<>>)
            IN  /\ accounts' = out.tables.accounts
                /\ journal_entries' = out.tables.journal_entries
                /\ transaction_lines' = out.tables.transaction_lines
                /\ raw_transactions' = out.raws
                /\ result' = returned("process_pending_transactions",
                                      out.results)
                              @@ [selected |-> selected, choice |-> choice]
    /\ UNCHANGED <<pending, sess, probe, account_checks>>

NextGenerator ==
    \/ SaveRawTransactions
    \/ ProcessPendingTransactions
    \/ Return

SpecGenerator == InitMonitor /\ [][NextGenerator]_vars

\* The raw transactions that are marked processed.
Processed == {i \in DOMAIN raw_transactions : raw_transactions[i].processed}

\* C31: a raw transaction is marked processed, pointing at its entry,
\* exactly when a journal entry has been committed for it: every step adds
\* as many journal entries as it marks raw transactions, a processed row
\* points at a committed entry, and so there are never more generated
\* entries than raw transactions.
C31_ProcessedIffPosted ==
    [][/\ Len(journal_entries') - Len(journal_entries)
            = Cardinality(Processed') - Cardinality(Processed)
       /\ \A i \in Processed' :
            raw_transactions'[i].journal_entry_id \in DOMAIN journal_entries'
       /\ Len(journal_entries') <= Len(raw_transactions')]_vars

\* C32: when the classifier suggests an account code the chart of accounts
\* does not have, the raw transaction is posted on the default account: a
\* run over one such row, with the storage working, adds one journal entry
\* with a line on account 5100 and marks the row processed.
C32_AbsentCodeFallsBackTo5100 ==
    [][(/\ result = NoResult
        /\ result'.status = "returned"
        /\ result'.op = "process_pending_transactions"
        /\ Len(result'.selected) = 1
        /\ result'.choice[1] = <<AbsentCode, "none">>)
        => /\ Len(journal_entries') = Len(journal_entries) + 1
           /\ \E k \in DOMAIN transaction_lines' \ DOMAIN transaction_lines :
                transaction_lines'[k].account_code = "5100"
           /\ raw_transactions'[result'.selected[1]].processed]_vars

(***************************************************************************)
(* The ledger's reports after postings of two and of three lines.          *)
(***************************************************************************)
\* The postings made: a cash sale, an expense paid in cash, and a receipt
\* of 0.006 split evenly between sales revenue and accounts payable.
LedgerTransactions ==
    {<<[account_code |-> "1000", debit |-> 10, credit |-> 0],
       [account_code |-> "4000", debit |-> 0, credit |-> 10]>>,
     <<[account_code |-> "5100", debit |-> 10, credit |-> 0],
       [account_code |-> "1000", debit |-> 0, credit |-> 10]>>,
     <<[account_code |-> "1000", debit |-> 6, credit |-> 0],
       [account_code |-> "4000", debit |-> 0, credit |-> 3],
       [account_code |-> "2000", debit |-> 0, credit |-> 3]>>}

\* create_journal_entry; the result is kept together with the lines that
\* were proposed.
PostLedgerEntry ==
    /\ pending = NoCall
    /\ result = NoResult
    /\ Len(journal_entries) < MaxEntries
    /\ \E d \in Dates, ts \in LedgerTransactions, fault \in Faults :
        LET out == post(Tables, d, ts, fault)
        IN  /\ result' = out.result @@ [transactions |-> ts]
            /\ accounts' = out.tables.accounts
            /\ journal_entries' = out.tables.journal_entries
            /\ transaction_lines' = out.tables.transaction_lines
    /\ UNCHANGED <<pending, sess, probe, account_checks, raw_transactions>>

NextLedger ==
    \/ PostLedgerEntry
    \/ GetTrialBalance
    \/ GetAccountBalance
    \/ Return

SpecLedger == InitMonitor /\ [][NextLedger]_vars

\* C33: after any sequence of successful postings the trial balance is
\* balanced: the TOTAL row that get_trial_balance returns has its debit
\* equal to its credit.
C33_TrialBalanceBalanced ==
    (result.status = "returned" /\ result.op = "get_trial_balance")
    => LET rows == result.value
           total == rows[Len(rows)]
       IN  /\ total.account_code = "TOTAL"
           /\ total.debit = total.credit

\* C37: get_account_balance(account_code, as_of_date) returns the balance
\* as of that date, which is the sum of the account's lines in entries
\* dated on or before as_of_date, and the cached balance of the account
\* when no date is given.
C37_BalanceAsOfDate ==
    (/\ result.status = "returned"
     /\ result.op = "get_account_balance"
     /\ result.account_code \in DOMAIN accounts)
    => LET code == result.account_code
           upto == {k \in DOMAIN transaction_lines :
                     journal_entries[transaction_lines[k].journal_entry_id]
                        .entry_date <= result.as_of_date}
       IN  result.value = IF result.as_of_date = NoDate
                            THEN accounts[code].balance
                            ELSE derived_balance(upto, code)

\* The call of worker `w` ends in this step with the outcome `status`.
Ends(w, status) ==
    /\ sess[w].pc # "done"
    /\ sess'[w].pc = "done"
    /\ sess'[w].status = status

\* C34: under any interleaving of concurrent posts no two committed journal
\* entries share an entry number, and a post that fails on the unique
\* constraint of entry_number leaves the tables as they were: no entry, no
\* line and no balance change of its own.
C34_EntryNumbersUnique ==
    [][/\ \A i, j \in DOMAIN journal_entries' :
            i # j => journal_entries'[i].entry_number
                        # journal_entries'[j].entry_number
       /\ \A w \in Workers :
            Ends(w, "integrity_error")
                => /\ UNCHANGED db
                   /\ \E i \in DOMAIN journal_entries :
                        journal_entries[i].entry_number
                            = sess[w].entry_number]_vars

\* Two posts derived the same entry number; one has committed and the other
\* has failed on the unique constraint.
C34_Witness ==
    /\ sess["w1"].pc = "done"
    /\ sess["w2"].pc = "done"
    /\ sess["w1"].entry_number = sess["w2"].entry_number
    /\ sess["w1"].status = "ok"
    /\ sess["w2"].status = "integrity_error"
    /\ Len(journal_entries) = 1

\* The entry numbers committed for the date `d` in the journal `entries`.
NumbersOn(entries, d) ==
    {entries[i].entry_number : i \in {j \in DOMAIN entries :
                                        entries[j].entry_date = d}}

\* How many entries of the journal `entries` are dated `d`.
CountOn(entries, d) ==
    Cardinality({i \in DOMAIN entries : entries[i].entry_date = d})

\* C35: a failed post does not consume an entry number: a post that raises
\* leaves the journal as it was, and after every mix of failed and
\* successful posts the numbers committed for a date are exactly those of
\* 1..k, k being the number of entries committed on that date.
C35_FailedPostKeepsNumber ==
    [][/\ (PostReturns /\ result'.status # "ok")
            => journal_entries' = journal_entries
       /\ (PostReturns /\ result'.status = "ok")
            => Len(journal_entries') = Len(journal_entries) + 1
       /\ \A d \in Dates :
            NumbersOn(journal_entries', d)
                = {FormatEntryNumber(d, n) :
                        n \in 1..CountOn(journal_entries', d)}]_vars

\* A post has failed in the storage after an entry had been committed, and
\* the journal still holds number 1 alone.
C35_Witness ==
    /\ result.status = "storage_error"
    /\ Len(journal_entries) = 1
    /\ journal_entries[1].entry_number
        = FormatEntryNumber(journal_entries[1].entry_date, 1)

\* C36: a successful post leaves alone the row of every account none of
\* its lines names and every journal entry and transaction line committed
\* before; it adds exactly one journal entry and, in order, exactly one
\* transaction line for each proposed line, under the new entry.
C36_SuccessfulPostFrame ==
    [][(result = NoResult /\ result'.status = "ok")
        => LET ts == result'.transactions
               n == Len(transaction_lines)
           IN  /\ DOMAIN accounts' = DOMAIN accounts
               /\ \A c \in DOMAIN accounts :
                    (\A i \in DOMAIN ts : ts[i].account_code # c)
                        => accounts'[c] = accounts[c]
               /\ IsPrefix(journal_entries, journal_entries')
               /\ Len(journal_entries') = Len(journal_entries) + 1
               /\ IsPrefix(transaction_lines, transaction_lines')
               /\ Len(transaction_lines') = n + Len(ts)
               /\ \A i \in DOMAIN ts :
                    /\ transaction_lines'[n + i].account_code
                            = ts[i].account_code
                    /\ transaction_lines'[n + i].journal_entry_id
                            = Len(journal_entries')]_vars

\* A receipt of three lines has been posted after an expense: the balance
\* of the expense account, which the receipt does not name, is still there.
C36_Witness ==
    /\ result.status = "ok"
    /\ Len(result.transactions) = 3
    /\ Len(journal_entries) = 2
    /\ Len(transaction_lines) = 5
    /\ accounts["5100"].balance = 10

====
